---- MODULE Spec2Model ----
(***************************************************************************)
(* cuebridge: the validation pipeline (NewValidator, Validate), the error  *)
(* extractor and the result formatter, with the CUE engine as an oracle    *)
(* that is a fixed function of its arguments.                              *)
(*                                                                         *)
(* Go strings that the code only passes along (names, file paths, message  *)
(* texts) are TLA+ strings; a string the code builds with fmt is the       *)
(* sequence of its pieces; a string the code inspects character by         *)
(* character (a path segment) is a sequence of one-character strings.      *)
(* A nil error is the empty sequence NoError.                              *)
(***************************************************************************)
EXTENDS Integers, Sequences, FiniteSets, TLC

VARIABLES
    validator,   \* the *Validator the caller holds (NoValidator before construction)
    newErr,      \* the error NewValidator returned last
    newArgs,     \* the arguments of the last NewValidator call
    readers,     \* the state of every io.Reader the caller owns
    pc,          \* position of the running validate call, "idle" between calls
    input,       \* the ValidationInput of the running (or last) call
    supplied,    \* the bytes behind the selected source when the call began
    data,        \* validate's local: the bytes readInput returned
    parsedData,  \* validate's local: the parsed cue.Value
    configDef,   \* validate's local: the looked-up definition
    unified,     \* validate's local: configDef.Unify(parsedData)
    result,      \* the ValidationResult of the last return
    err,         \* the process error of the last return
    stages,      \* the stages the running (or last) call has executed, in order
    prev,        \* a completed earlier call: its input, bytes read, result and error
    results,     \* FormatResults: the argument
    output,      \* FormatResults: the returned text, as the sequence of written pieces
    engineErr,   \* extractValidationErrors: the argument
    extracted    \* extractValidationErrors: the returned records

vars == <<validator, newErr, newArgs, readers, pc, input, supplied, data,
          parsedData, configDef, unified, result, err, stages, prev, results,
          output, engineErr, extracted>>

newVars == <<validator, newErr, newArgs>>

callVars == <<pc, input, supplied, data, parsedData, configDef, unified, result,
              err, stages, prev>>

fmtVars == <<results, output, engineErr, extracted>>

----------------------------------------------------------------------------
(* bridge.go: the enumerations *)

SourceFile == 0
SourceReader == 1
SourceBytes == 2
FormatJSON == 0
FormatYAML == 1

\* A tag past the last declared one of each enumeration.
UnknownSourceType == SourceBytes + 1
UnknownFormat == FormatYAML + 1

NoError == <<>>
NoSchema == [value |-> "", defs |-> {}, err |-> NoError]
NoValidator == [schemaPath |-> "", definitionName |-> "", compiledSchema |-> NoSchema]

----------------------------------------------------------------------------
(* The schema files on disk and the engine's compiler (the oracle). *)

SchemaPaths == {"schema.cue", "invalid.cue", "no-config.cue", "/nonexistent.cue"}
DefinitionNames == {"#Config", "#Loose", "#Missing"}

\* os.ReadFile(schemaPath): the schema files that can be read.
SchemaReadable(schemaPath) == schemaPath # "/nonexistent.cue"

\* ctx.CompileBytes(schemaData, cue.Filename(schemaPath)) followed by schema.Err():
\* the compiled schema value, and the error it carries.
CompileBytes(schemaPath) ==
    CASE schemaPath = "schema.cue" ->
            [value |-> "schema.cue", defs |-> {"#Config", "#Loose"}, err |-> NoError]
      [] schemaPath = "no-config.cue" ->
            [value |-> "no-config.cue", defs |-> {}, err |-> NoError]
      [] OTHER ->
            [value |-> schemaPath, defs |-> {},
             err |-> <<schemaPath, ":1:8: expected 'EOF', found syntax">>]

\* schema.LookupPath(cue.ParsePath(definitionName)) and configDef.Exists().
LookupPath(schema, definitionName) ==
    [exists |-> definitionName \in schema.defs, def |-> definitionName]

\* newValidator, the branch taken when the definition lookup does not resolve.
DefinitionNotFoundDroppingName(definitionName) ==
    <<"schema does not define ">>

DefinitionNotFound(definitionName) ==
    <<"schema does not define ", definitionName>>

\* newValidator, the check that the definition exists before a Validator is built.
DefinitionCheckSkipped(schema, definitionName) == TRUE

DefinitionResolves(schema, definitionName) ==
    LookupPath(schema, definitionName).exists

\* newValidator: the pair (validator, error) it returns.
newValidator(schemaPath, definitionName) ==
    IF ~SchemaReadable(schemaPath)
    THEN [v |-> NoValidator,
          err |-> <<"reading schema file: ", "open ", schemaPath,
                    ": no such file or directory">>]
    ELSE LET schema == CompileBytes(schemaPath) IN
         IF schema.err # NoError
         THEN [v |-> NoValidator, err |-> <<"compiling schema: ">> \o schema.err]
         ELSE IF ~DefinitionResolves(schema, definitionName)
         THEN [v |-> NoValidator, err |-> DefinitionNotFound(definitionName)]
         ELSE [v |-> [schemaPath |-> schemaPath,
                      definitionName |-> definitionName,
                      compiledSchema |-> schema],
               err |-> NoError]

----------------------------------------------------------------------------
(* Documents, the files on disk and the caller's readers. *)

\* Byte contents. Trunc is Good cut short (an unterminated document).
Empty == <<>>
Good == <<1, 2>>
Wrong == <<3, 2>>
Trunc == <<1>>
Conflict == <<4, 2>>
Dup == <<4, 4>>
Contents == {Empty, Good, Wrong, Trunc, Conflict, Dup}

\* The data files that exist, with their contents; any other path cannot be read.
Files == [p \in {"empty.yaml", "good.json", "wrong.json", "trunc.json"} |->
            CASE p = "empty.yaml" -> Empty
              [] p = "good.json" -> Good
              [] p = "wrong.json" -> Wrong
              [] OTHER -> Trunc]

FilePaths == DOMAIN Files \cup {"/nonexistent/file.yaml", ""}

NilReader == "nil"
ReaderHandles == {"R1"}

\* A []byte: nil (absent) is distinct from empty but present.
NilData == [present |-> FALSE, bytes |-> <<>>]
Bytes(b) == [present |-> TRUE, bytes |-> b]

Names == {"a.json", "b.yaml"}

----------------------------------------------------------------------------
(* input.go: Input Acquisition. Each returns (data, err); readFromReader   *)
(* also returns what is left in the reader.                                *)

\* readFromFile misreading: the file is read again from where the last read ended.
readFromFileKeepingOffset(filePath) ==
    IF filePath \in DOMAIN Files
    THEN [data |-> IF prev.done /\ prev.input.SourceType = SourceFile
                      /\ prev.input.FilePath = filePath
                   THEN <<>> ELSE Files[filePath],
          err |-> NoError]
    ELSE [data |-> <<>>,
          err |-> <<"reading file ", filePath, ": ", "open ", filePath,
                    ": no such file or directory">>]

readFromFile(filePath) ==
    IF filePath \in DOMAIN Files
    THEN [data |-> Files[filePath], err |-> NoError]
    ELSE [data |-> <<>>,
          err |-> <<"reading file ", filePath, ": ", "open ", filePath,
                    ": no such file or directory">>]

\* readFromReader stopping after the first byte instead of draining the reader.
readFromReaderOneByte(reader) ==
    IF reader = NilReader
    THEN [data |-> <<>>, err |-> <<"reader is nil">>, left |-> <<>>]
    ELSE IF readers[reader].fault
    THEN [data |-> <<>>, err |-> <<"reading from reader: ", "unexpected EOF">>,
          left |-> readers[reader].buf]
    ELSE IF readers[reader].buf = <<>>
    THEN [data |-> <<>>, err |-> NoError, left |-> <<>>]
    ELSE [data |-> <<Head(readers[reader].buf)>>, err |-> NoError,
          left |-> Tail(readers[reader].buf)]

\* io.ReadAll drains the reader: what it returned once is not returned again.
readFromReader(reader) ==
    IF reader = NilReader
    THEN [data |-> <<>>, err |-> <<"reader is nil">>, left |-> <<>>]
    ELSE IF readers[reader].fault
    THEN [data |-> <<>>, err |-> <<"reading from reader: ", "unexpected EOF">>,
          left |-> readers[reader].buf]
    ELSE [data |-> readers[reader].buf, err |-> NoError, left |-> <<>>]

\* readFromBytes rejecting an empty buffer like an absent one.
readFromBytesRejectingEmpty(d) ==
    IF ~d.present \/ Len(d.bytes) = 0
    THEN [data |-> <<>>, err |-> <<"data is nil">>]
    ELSE [data |-> d.bytes, err |-> NoError]

readFromBytes(d) ==
    IF ~d.present
    THEN [data |-> <<>>, err |-> <<"data is nil">>]
    ELSE [data |-> d.bytes, err |-> NoError]

\* readInput: (data, err) and the readers as the read leaves them.
readInput(in) ==
    CASE in.SourceType = SourceFile ->
            LET r == readFromFile(in.FilePath) IN
            [data |-> r.data, err |-> r.err, readers |-> readers]
      [] in.SourceType = SourceReader ->
            LET r == readFromReader(in.Reader) IN
            [data |-> r.data, err |-> r.err,
             readers |-> IF in.Reader = NilReader THEN readers
                         ELSE [readers EXCEPT ![in.Reader].buf = r.left]]
      [] in.SourceType = SourceBytes ->
            LET r == readFromBytes(in.Data) IN
            [data |-> r.data, err |-> r.err, readers |-> readers]
      [] OTHER ->
            [data |-> <<>>, err |-> <<"unknown source type: ", ToString(in.SourceType)>>,
             readers |-> readers]

----------------------------------------------------------------------------
(* The engine's values and errors (the oracle).                            *)
(* An engine error is [text, errs]: its full text and the list             *)
(* errors.Errors gives for it; each list element has its positions, its    *)
(* raw path and its own text. The nil engine error has an empty text.      *)

NoEngineError == [text |-> <<>>, errs |-> <<>>]
NoValue == [doc |-> "", err |-> NoEngineError]

Pos(l, c) == [line |-> l, column |-> c]

SegConfig == <<"#", "C", "o", "n", "f", "i", "g">>
SegLoose == <<"#", "L", "o", "o", "s", "e">>
SegName == <<"n", "a", "m", "e">>
SegWrong == <<"\"", "w", "r", "o", "n", "g", "\"">>
SegIndex == <<"[", "0", "]">>

\* json.Extract(filename, data): the syntax error, or the expression.
JSONExtract(filename, d) ==
    CASE d = Good -> [expr |-> "good", err |-> NoError]
      [] d = Wrong -> [expr |-> "wrong", err |-> NoError]
      [] d = Conflict -> [expr |-> "conflict", err |-> NoError]
      [] d = Dup -> [expr |-> "dup", err |-> NoError]
      [] d = Empty -> [expr |-> "", err |-> <<filename, ": ", "unexpected end of input">>]
      [] OTHER -> [expr |-> "", err |-> <<filename, ":1:2: ", "expected '}', found 'EOF'">>]

\* yaml.Extract(filename, data): the syntax error, or the file. An empty YAML
\* document is well-formed.
YAMLExtract(filename, d) ==
    CASE d = Good -> [file |-> "good", err |-> NoError]
      [] d = Wrong -> [file |-> "wrong", err |-> NoError]
      [] d = Conflict -> [file |-> "conflict", err |-> NoError]
      [] d = Dup -> [file |-> "dup", err |-> NoError]
      [] d = Empty -> [file |-> "empty", err |-> NoError]
      [] OTHER -> [file |-> "", err |-> <<filename, ":1: ", "did not find expected key">>]

\* ctx.BuildExpr / ctx.BuildFile: the value, which carries an error when the
\* document does not evaluate (here: a field given two conflicting values). The
\* error of "conflict" lists nothing; the error of "dup" lists its two conflicts,
\* each with the positions and the path of the field.
Build(filename, doc) ==
    CASE doc = "conflict" ->
            [doc |-> doc,
             err |-> [text |-> <<"conflicting values 1 and 2">>, errs |-> <<>>]]
      [] doc = "dup" ->
            [doc |-> doc,
             err |-> [text |-> <<"name: conflicting values \"a\" and \"b\"",
                                 " (and 1 more errors)">>,
                      errs |-> <<[positions |-> <<Pos(1, 10), Pos(1, 23)>>,
                                  path |-> <<SegName>>,
                                  text |-> <<"name: conflicting values \"a\" and \"b\"">>],
                                 [positions |-> <<Pos(2, 3)>>,
                                  path |-> <<SegWrong, SegIndex>>,
                                  text |-> <<"wrong.0: conflicting values 1 and 2">>]>>]]
      [] OTHER -> [doc |-> doc, err |-> NoEngineError]

\* configDef.Unify(parsedData).
Unify(def, value) == [def |-> def, doc |-> value.doc]

\* unified.Validate(cue.Concrete(true)): nil, or the engine's error list.
ValidateConcrete(u) ==
    CASE u.def = "#Config" /\ u.doc = "wrong" ->
            [text |-> <<"#Config.wrong: field not allowed", " (and 1 more errors)">>,
             errs |-> <<[positions |-> <<Pos(0, 0), Pos(2, 0), Pos(1, 1)>>,
                         path |-> <<SegConfig, SegWrong>>,
                         text |-> <<"#Config.wrong: field not allowed">>],
                        [positions |-> <<>>,
                         path |-> <<SegConfig, SegName>>,
                         text |-> <<"#Config.name: incomplete value string">>]>>]
      [] u.def = "#Config" /\ u.doc = "empty" ->
            [text |-> <<"#Config.name: incomplete value string">>,
             errs |-> <<[positions |-> <<Pos(0, 5)>>,
                         path |-> <<SegConfig, SegName>>,
                         text |-> <<"#Config.name: incomplete value string">>]>>]
      [] u.def = "#Loose" /\ u.doc = "wrong" ->
            [text |-> <<"#Loose.items.0: conflicting values">>,
             errs |-> <<[positions |-> <<Pos(3, 7)>>,
                         path |-> <<SegLoose, <<>>, SegIndex>>,
                         text |-> <<"#Loose.items.0: conflicting values">>]>>]
      [] OTHER -> NoEngineError

----------------------------------------------------------------------------
(* input.go: Document Parser. Each returns (value, err). *)

parseJSON(d, filename) ==
    LET x == JSONExtract(filename, d) IN
    IF x.err # NoError
    THEN [value |-> NoValue, err |-> <<"parsing JSON: ">> \o x.err]
    ELSE [value |-> Build(filename, x.expr), err |-> NoError]

parseYAML(d, filename) ==
    LET x == YAMLExtract(filename, d) IN
    IF x.err # NoError
    THEN [value |-> NoValue, err |-> <<"parsing YAML: ">> \o x.err]
    ELSE [value |-> Build(filename, x.file), err |-> NoError]

parseData(d, format, filename) ==
    CASE format = FormatJSON -> parseJSON(d, filename)
      [] format = FormatYAML -> parseYAML(d, filename)
      [] OTHER -> [value |-> NoValue,
                   err |-> <<"unsupported format: ", ToString(format)>>]

----------------------------------------------------------------------------
(* The Error Extractor. A ValidationError is [Line, Column, Path, Message]; *)
(* Path is the string as its characters, "" being <<>>.                     *)

\* strings.HasPrefix(p, "[")
HasPrefixBracket(p) == Len(p) > 0 /\ p[1] = "["

\* isValidPathElement without the test for an index segment.
isValidPathElementKeepingIndex(p) ==
    p # <<>> /\ p # SegConfig

\* isValidPathElement
isValidPathElement(p) ==
    p # <<>> /\ ~HasPrefixBracket(p) /\ p # SegConfig

RECURSIVE TrimLeft(_)
TrimLeft(p) ==
    IF p # <<>> /\ Head(p) = "\"" THEN TrimLeft(Tail(p)) ELSE p

RECURSIVE TrimRight(_)
TrimRight(p) ==
    IF p # <<>> /\ p[Len(p)] = "\"" THEN TrimRight(SubSeq(p, 1, Len(p) - 1)) ELSE p

\* strings.Trim(p, `"`): every leading and trailing quote is removed.
Trim(p) == TrimRight(TrimLeft(p))

\* strings.Join(parts, ".")
RECURSIVE Join(_)
Join(parts) ==
    IF parts = <<>> THEN <<>>
    ELSE IF Len(parts) = 1 THEN parts[1]
    ELSE parts[1] \o <<".">> \o Join(Tail(parts))

\* formatPath, the loop: the parts kept, in order.
RECURSIVE PathParts(_)
PathParts(path) ==
    IF path = <<>> THEN <<>>
    ELSE IF ~isValidPathElement(Head(path)) THEN PathParts(Tail(path))
    ELSE <<Trim(Head(path))>> \o PathParts(Tail(path))

formatPath(path) == Join(PathParts(path))

\* extractFieldPath
extractFieldPath(e) ==
    IF Len(e.path) = 0 THEN <<>> ELSE formatPath(e.path)

\* extractLineNumber: the first position whose line is positive, else 0.
RECURSIVE FirstLine(_)
FirstLine(positions) ==
    IF positions = <<>> THEN 0
    ELSE IF Head(positions).line > 0 THEN Head(positions).line
    ELSE FirstLine(Tail(positions))

\* extractLineNumber looking at the first position only.
extractLineNumberFirstPosition(e) ==
    IF e.positions = <<>> THEN 0 ELSE Head(e.positions).line

extractLineNumber(e) == FirstLine(e.positions)

\* extractColumnNumber: the first position whose column is positive, else 0.
RECURSIVE FirstColumn(_)
FirstColumn(positions) ==
    IF positions = <<>> THEN 0
    ELSE IF Head(positions).column > 0 THEN Head(positions).column
    ELSE FirstColumn(Tail(positions))

extractColumnNumber(e) == FirstColumn(e.positions)

\* extractSingleError
extractSingleError(e) ==
    [Line |-> extractLineNumber(e),
     Column |-> extractColumnNumber(e),
     Path |-> extractFieldPath(e),
     Message |-> e.text]

\* extractValidationErrors without the fallback for an error that lists nothing.
extractValidationErrorsNoFallback(e) ==
    [i \in 1..Len(e.errs) |-> extractSingleError(e.errs[i])]

\* extractValidationErrors
extractValidationErrors(e) ==
    IF Len(e.errs) = 0
    THEN <<[Line |-> 0, Column |-> 0, Path |-> <<>>, Message |-> e.text]>>
    ELSE [i \in 1..Len(e.errs) |-> extractSingleError(e.errs[i])]

----------------------------------------------------------------------------
(* The results validate returns. *)

\* ValidationResult{}: what accompanies a process error.
ZeroResult == [Name |-> "", Valid |-> FALSE, Errors |-> <<>>]

\* createErrorResult
createErrorResult(name, message) ==
    [Name |-> name, Valid |-> FALSE,
     Errors |-> <<[Line |-> 0, Column |-> 0, Path |-> <<>>, Message |-> message]>>]

\* createValidationErrorResult
createValidationErrorResult(name, e) ==
    [Name |-> name, Valid |-> FALSE, Errors |-> extractValidationErrors(e)]

\* validate, the success return.
SuccessResult(name) == [Name |-> name, Valid |-> TRUE, Errors |-> <<>>]

----------------------------------------------------------------------------
(* validate, stage by stage. Each stage gives the position the call moves  *)
(* to ("idle" when it returns) and, when it returns, what it returns.      *)

\* data, err := readInput(input); if err != nil { return ..., "reading input: %w" }
readStage(in) ==
    LET r == readInput(in) IN
    IF r.err # NoError
    THEN [next |-> "idle", data |-> <<>>, readers |-> r.readers,
          result |-> ZeroResult, err |-> <<"reading input: ">> \o r.err]
    ELSE [next |-> "PARSE", data |-> r.data, readers |-> r.readers,
          result |-> ZeroResult, err |-> NoError]

\* PARSE handing a parse failure back as a process error.
parseStageReturningError(in, d) ==
    LET p == parseData(d, in.Format, in.Name) IN
    IF p.err # NoError
    THEN [next |-> "idle", parsedData |-> NoValue,
          result |-> ZeroResult, err |-> <<"failed to parse: ">> \o p.err]
    ELSE IF p.value.err # NoEngineError
    THEN [next |-> "idle", parsedData |-> NoValue,
          result |-> createValidationErrorResult(in.Name, p.value.err),
          err |-> NoError]
    ELSE [next |-> "RESOLVE", parsedData |-> p.value,
          result |-> ZeroResult, err |-> NoError]

\* PARSE reporting the error of the lifted value like a front-end error: one record.
parseStageLiftedAsSynthetic(in, d) ==
    LET p == parseData(d, in.Format, in.Name) IN
    IF p.err # NoError
    THEN [next |-> "idle", parsedData |-> NoValue,
          result |-> createErrorResult(in.Name, <<"failed to parse: ">> \o p.err),
          err |-> NoError]
    ELSE IF p.value.err # NoEngineError
    THEN [next |-> "idle", parsedData |-> NoValue,
          result |-> createErrorResult(in.Name,
                                       <<"failed to parse: ">> \o p.value.err.text),
          err |-> NoError]
    ELSE [next |-> "RESOLVE", parsedData |-> p.value,
          result |-> ZeroResult, err |-> NoError]

\* PARSE going on to the lookup although the document did not parse.
parseStageNotReturning(in, d) ==
    LET p == parseData(d, in.Format, in.Name) IN
    IF p.err # NoError
    THEN [next |-> "RESOLVE", parsedData |-> NoValue,
          result |-> createErrorResult(in.Name, <<"failed to parse: ">> \o p.err),
          err |-> NoError]
    ELSE IF p.value.err # NoEngineError
    THEN [next |-> "idle", parsedData |-> NoValue,
          result |-> createValidationErrorResult(in.Name, p.value.err),
          err |-> NoError]
    ELSE [next |-> "RESOLVE", parsedData |-> p.value,
          result |-> ZeroResult, err |-> NoError]

\* parsedData, err := parseData(...); if err != nil { return createErrorResult, nil }
\* if parsedData.Err() != nil { return createValidationErrorResult, nil }
parseStage(in, d) ==
    LET p == parseData(d, in.Format, in.Name) IN
    IF p.err # NoError
    THEN [next |-> "idle", parsedData |-> NoValue,
          result |-> createErrorResult(in.Name, <<"failed to parse: ">> \o p.err),
          err |-> NoError]
    ELSE IF p.value.err # NoEngineError
    THEN [next |-> "idle", parsedData |-> NoValue,
          result |-> createValidationErrorResult(in.Name, p.value.err),
          err |-> NoError]
    ELSE [next |-> "RESOLVE", parsedData |-> p.value,
          result |-> ZeroResult, err |-> NoError]

\* configDef := v.compiledSchema.LookupPath(...); if !configDef.Exists() { return err }
resolveStage(v) ==
    LET d == LookupPath(v.compiledSchema, v.definitionName) IN
    IF ~d.exists
    THEN [next |-> "idle", configDef |-> "",
          result |-> ZeroResult,
          err |-> <<"schema does not define ", v.definitionName>>]
    ELSE [next |-> "UNIFY", configDef |-> d.def,
          result |-> ZeroResult, err |-> NoError]

\* err = unified.Validate(cue.Concrete(true)); failure or success, both with a nil error
checkStage(in, u) ==
    LET e == ValidateConcrete(u) IN
    IF e # NoEngineError
    THEN [result |-> createValidationErrorResult(in.Name, e), err |-> NoError]
    ELSE [result |-> SuccessResult(in.Name), err |-> NoError]

----------------------------------------------------------------------------
(* The inputs a caller passes. *)

ZeroInput == [SourceType |-> SourceFile, Name |-> "", FilePath |-> "",
              Reader |-> NilReader, Data |-> NilData, Format |-> FormatJSON]

Formats == {FormatJSON, FormatYAML, UnknownFormat}

\* The payload fields: the selected one set, or one set that the tag does not select.
Payloads ==
    [SourceType : {SourceFile}, FilePath : FilePaths \ {""},
     Reader : {NilReader}, Data : {NilData}]
    \cup [SourceType : {SourceReader}, FilePath : {""},
          Reader : {NilReader} \cup ReaderHandles, Data : {NilData}]
    \cup [SourceType : {SourceBytes}, FilePath : {""},
          Reader : {NilReader}, Data : {NilData} \cup {Bytes(b) : b \in Contents}]
    \cup [SourceType : {SourceReader}, FilePath : {""},
          Reader : {NilReader}, Data : {Bytes(Good)}]
    \cup [SourceType : {UnknownSourceType}, FilePath : {"good.json"},
          Reader : {NilReader}, Data : {Bytes(Good)}]

Inputs ==
    {[SourceType |-> p.SourceType, Name |-> n, FilePath |-> p.FilePath,
      Reader |-> p.Reader, Data |-> p.Data, Format |-> f] :
        p \in Payloads, n \in Names, f \in Formats}

\* The bytes behind the source the input selects, when there are any to read.
Supplied(in) ==
    CASE in.SourceType = SourceFile ->
            IF in.FilePath \in DOMAIN Files THEN Bytes(Files[in.FilePath]) ELSE NilData
      [] in.SourceType = SourceReader ->
            IF in.Reader = NilReader \/ readers[in.Reader].fault THEN NilData
            ELSE Bytes(readers[in.Reader].buf)
      [] in.SourceType = SourceBytes -> in.Data
      [] OTHER -> NilData

NoCall == [done |-> FALSE, input |-> ZeroInput, supplied |-> NilData,
           result |-> ZeroResult, err |-> NoError]

\* The call that has just returned, as a record.
LastCall == [done |-> TRUE, input |-> input, supplied |-> supplied,
             result |-> result, err |-> err]

Returned == pc = "idle" /\ stages # <<>>

----------------------------------------------------------------------------
(* The operations. *)

Init ==
    /\ validator = NoValidator
    /\ newErr = NoError
    /\ newArgs = [schemaPath |-> "", definitionName |-> "", called |-> FALSE]
    /\ readers \in [ReaderHandles ->
                      [buf : Contents, fault : {FALSE}]
                      \cup {[buf |-> Trunc, fault |-> TRUE]}]
    /\ pc = "idle"
    /\ input = ZeroInput
    /\ supplied = NilData
    /\ data = <<>>
    /\ parsedData = NoValue
    /\ configDef = ""
    /\ unified = [def |-> "", doc |-> ""]
    /\ result = ZeroResult
    /\ err = NoError
    /\ stages = <<>>
    /\ prev = NoCall
    /\ results = <<>>
    /\ output = <<>>
    /\ engineErr = NoEngineError
    /\ extracted = <<>>

\* NewValidator(schemaPath, definitionName); the caller keeps the Validator it gets.
NewValidator(schemaPath, definitionName) ==
    /\ validator = NoValidator
    /\ LET r == newValidator(schemaPath, definitionName) IN
        /\ validator' = r.v
        /\ newErr' = r.err
    /\ newArgs' = [schemaPath |-> schemaPath, definitionName |-> definitionName,
                   called |-> TRUE]
    /\ UNCHANGED <<readers, callVars, fmtVars>>

\* v.Validate(in) is entered. The caller may keep the call that returned before.
Call(in) ==
    /\ validator # NoValidator
    /\ pc = "idle"
    /\ pc' = "READ"
    /\ input' = in
    /\ supplied' = Supplied(in)
    /\ prev' \in (IF Returned THEN {LastCall} ELSE {}) \cup {prev}
    /\ data' = <<>>
    /\ parsedData' = NoValue
    /\ configDef' = ""
    /\ unified' = [def |-> "", doc |-> ""]
    /\ result' = ZeroResult
    /\ err' = NoError
    /\ stages' = <<>>
    /\ UNCHANGED <<newVars, readers, fmtVars>>

Read ==
    /\ pc = "READ"
    /\ LET s == readStage(input) IN
        /\ pc' = s.next
        /\ data' = s.data
        /\ readers' = s.readers
        /\ result' = s.result
        /\ err' = s.err
    /\ stages' = Append(stages, "READ")
    /\ UNCHANGED <<newVars, input, supplied, parsedData, configDef, unified, prev,
                   fmtVars>>

Parse ==
    /\ pc = "PARSE"
    /\ LET s == parseStage(input, data) IN
        /\ pc' = s.next
        /\ parsedData' = s.parsedData
        /\ result' = s.result
        /\ err' = s.err
    /\ stages' = Append(stages, "PARSE")
    /\ UNCHANGED <<newVars, readers, input, supplied, data, configDef, unified,
                   prev, fmtVars>>

Resolve ==
    /\ pc = "RESOLVE"
    /\ LET s == resolveStage(validator) IN
        /\ pc' = s.next
        /\ configDef' = s.configDef
        /\ result' = s.result
        /\ err' = s.err
    /\ stages' = Append(stages, "RESOLVE")
    /\ UNCHANGED <<newVars, readers, input, supplied, data, parsedData, unified,
                   prev, fmtVars>>

UnifyStep ==
    /\ pc = "UNIFY"
    /\ unified' = Unify(configDef, parsedData)
    /\ pc' = "CHECK"
    /\ stages' = Append(stages, "UNIFY")
    /\ UNCHANGED <<newVars, readers, input, supplied, data, parsedData, configDef,
                   result, err, prev, fmtVars>>

CheckConcrete ==
    /\ pc = "CHECK"
    /\ LET s == checkStage(input, unified) IN
        /\ result' = s.result
        /\ err' = s.err
    /\ pc' = "idle"
    /\ stages' = Append(stages, "CHECK")
    /\ UNCHANGED <<newVars, readers, input, supplied, data, parsedData, configDef,
                   unified, prev, fmtVars>>

Next ==
    \/ \E p \in SchemaPaths, d \in DefinitionNames : NewValidator(p, d)
    \/ \E in \in Inputs : Call(in)
    \/ Read
    \/ Parse
    \/ Resolve
    \/ UnifyStep
    \/ CheckConcrete

Spec == Init /\ [][Next]_vars

----------------------------------------------------------------------------
(* The Result Formatter. The text is the sequence of the pieces written:   *)
(* the literal parts of each format string, the arguments (a number in     *)
(* decimal, a path character by character) and the newline.                *)

\* formatError with the line-only case tried before the line-and-field case.
formatErrorLineFirst(e) ==
    CASE e.Line > 0 ->
            <<"  line ", ToString(e.Line), ": ">> \o e.Message \o <<"\n">>
      [] e.Line <= 0 /\ e.Path # <<>> ->
            <<"  field \"">> \o e.Path \o <<"\": ">> \o e.Message \o <<"\n">>
      [] OTHER -> <<"  ">> \o e.Message \o <<"\n">>

\* formatError: the first case of the switch that matches.
formatError(e) ==
    CASE e.Line > 0 /\ e.Path # <<>> ->
            <<"  line ", ToString(e.Line), ", field \"">> \o e.Path \o <<"\": ">>
                \o e.Message \o <<"\n">>
      [] e.Line > 0 /\ ~(e.Path # <<>>) ->
            <<"  line ", ToString(e.Line), ": ">> \o e.Message \o <<"\n">>
      [] ~(e.Line > 0) /\ e.Path # <<>> ->
            <<"  field \"">> \o e.Path \o <<"\": ">> \o e.Message \o <<"\n">>
      [] OTHER -> <<"  ">> \o e.Message \o <<"\n">>

\* formatSingleResult, the loop over result.Errors.
RECURSIVE formatErrors(_)
formatErrors(errs) ==
    IF errs = <<>> THEN <<>>
    ELSE formatError(Head(errs)) \o formatErrors(Tail(errs))

\* formatSingleResult
formatSingleResult(r) ==
    IF r.Valid
    THEN <<r.Name, ": ok", "\n">>
    ELSE <<"FAIL: ", r.Name, "\n">> \o formatErrors(r.Errors)

\* FormatResults
RECURSIVE FormatResults(_)
FormatResults(rs) ==
    IF rs = <<>> THEN <<>>
    ELSE formatSingleResult(Head(rs)) \o FormatResults(Tail(rs))

\* Bounds of the formatter's arguments.
MaxResults == 2
MaxErrors == 2

SeqsUpTo(S, n) == UNION {[1..k -> S] : k \in 0..n}

FmtErrors ==
    [Line : {0, 5}, Column : {0}, Path : {<<>>, <<"r">>}, Message : {<<"msg">>}]

FmtResults ==
    [Name : Names, Valid : {TRUE}, Errors : {<<>>}]
    \cup [Name : {"a.json"}, Valid : {TRUE},
          Errors : {<<[Line |-> 5, Column |-> 0, Path |-> <<"r">>,
                      Message |-> <<"msg">>]>>}]
    \cup [Name : {"b.yaml"}, Valid : {FALSE}, Errors : SeqsUpTo(FmtErrors, MaxErrors)]

InitFormat ==
    /\ validator = NoValidator
    /\ newErr = NoError
    /\ newArgs = [schemaPath |-> "", definitionName |-> "", called |-> FALSE]
    /\ readers = [h \in ReaderHandles |-> [buf |-> Empty, fault |-> FALSE]]
    /\ pc = "idle"
    /\ input = ZeroInput
    /\ supplied = NilData
    /\ data = <<>>
    /\ parsedData = NoValue
    /\ configDef = ""
    /\ unified = [def |-> "", doc |-> ""]
    /\ result = ZeroResult
    /\ err = NoError
    /\ stages = <<>>
    /\ prev = NoCall
    /\ results \in SeqsUpTo(FmtResults, MaxResults)
    /\ output = <<>>
    /\ engineErr = NoEngineError
    /\ extracted = <<>>

\* output := FormatResults(results)
Format ==
    /\ pc = "idle"
    /\ pc' = "formatted"
    /\ output' = FormatResults(results)
    /\ UNCHANGED <<newVars, readers, input, supplied, data, parsedData, configDef,
                   unified, result, err, stages, prev, results, engineErr,
                   extracted>>

NextFormat == Format

SpecFormat == InitFormat /\ [][NextFormat]_vars

----------------------------------------------------------------------------
(* The Error Extractor applied to the engine's errors. *)

\* Bounds of the extractor's arguments.
MaxPathLen == 3
MaxSubErrors == 2
MaxPositions == 2

\* A quoted label that starts with a bracket once its quotes are stripped.
SegQuotedIndex == <<"\"", "[", "0", "]", "\"">>

\* The raw path segments e.Path() gives.
Segments == {SegConfig, SegName, SegWrong, SegIndex, SegQuotedIndex, <<>>}

\* The positions errors.Positions gives.
Positions == {Pos(0, 5), Pos(3, 0), Pos(2, 7)}

\* One engine error with any raw path.
PathErrors ==
    {[text |-> <<"e1">>,
      errs |-> <<[positions |-> <<Pos(3, 7)>>, path |-> p, text |-> <<"e1">>]>>] :
        p \in SeqsUpTo(Segments, MaxPathLen)}

\* The errors an engine error lists: with or without a path, with any positions.
SubErrors ==
    [positions : SeqsUpTo(Positions, MaxPositions),
     path : {<<>>}, text : {<<"e1">>}]
    \cup [positions : SeqsUpTo(Positions, MaxPositions),
          path : {<<SegConfig, SegName>>}, text : {<<"e2">>}]

ListErrors ==
    [text : {<<"engine error">>}, errs : SeqsUpTo(SubErrors, MaxSubErrors)]

\* Nothing constructed, no call running, nothing formatted.
AtRest ==
    /\ validator = NoValidator
    /\ newErr = NoError
    /\ newArgs = [schemaPath |-> "", definitionName |-> "", called |-> FALSE]
    /\ readers = [h \in ReaderHandles |-> [buf |-> Empty, fault |-> FALSE]]
    /\ pc = "idle"
    /\ input = ZeroInput
    /\ supplied = NilData
    /\ data = <<>>
    /\ parsedData = NoValue
    /\ configDef = ""
    /\ unified = [def |-> "", doc |-> ""]
    /\ result = ZeroResult
    /\ err = NoError
    /\ stages = <<>>
    /\ prev = NoCall
    /\ results = <<>>
    /\ output = <<>>
    /\ extracted = <<>>

InitPath == AtRest /\ engineErr \in PathErrors

InitExtract == AtRest /\ engineErr \in ListErrors

\* extracted := extractValidationErrors(engineErr)
Extract ==
    /\ pc = "idle"
    /\ pc' = "extracted"
    /\ extracted' = extractValidationErrors(engineErr)
    /\ UNCHANGED <<newVars, readers, input, supplied, data, parsedData, configDef,
                   unified, result, err, stages, prev, results, output, engineErr>>

NextExtract == Extract

SpecPath == InitPath /\ [][NextExtract]_vars

SpecExtract == InitExtract /\ [][NextExtract]_vars

----------------------------------------------------------------------------
(* Vocabulary of the properties. *)

\* The stages of one Validate call, in the order the design gives them.
StageOrder == <<"READ", "PARSE", "RESOLVE", "UNIFY", "CHECK">>

IsPrefix(s, t) == Len(s) <= Len(t) /\ \A i \in 1..Len(s) : s[i] = t[i]

\* The call got past READ: its input was read successfully.
ReadSucceeded == Len(stages) >= 2

SupportedFormat(f) == f \in {FormatJSON, FormatYAML}

\* The document d, in a supported format, has a syntax error or does not evaluate.
Malformed(in, d) ==
    \/ in.Format = FormatJSON /\ JSONExtract(in.Name, d).err # NoError
    \/ in.Format = FormatYAML /\ YAMLExtract(in.Name, d).err # NoError
    \/ /\ in.Format = FormatJSON /\ JSONExtract(in.Name, d).err = NoError
       /\ Build(in.Name, JSONExtract(in.Name, d).expr).err # NoEngineError
    \/ /\ in.Format = FormatYAML /\ YAMLExtract(in.Name, d).err = NoError
       /\ Build(in.Name, YAMLExtract(in.Name, d).file).err # NoEngineError

\* The document d parses and the concrete check of it against v's definition fails.
ViolatesConstraints(v, in, d) ==
    /\ SupportedFormat(in.Format)
    /\ ~Malformed(in, d)
    /\ LET doc == IF in.Format = FormatJSON THEN JSONExtract(in.Name, d).expr
                  ELSE YAMLExtract(in.Name, d).file
       IN ValidateConcrete([def |-> v.definitionName, doc |-> doc]) # NoEngineError

\* The payload the tag selects cannot be acquired.
CannotAcquire(in) ==
    CASE in.SourceType = SourceFile -> in.FilePath \notin DOMAIN Files
      [] in.SourceType = SourceReader ->
            in.Reader = NilReader \/ readers[in.Reader].fault
      [] in.SourceType = SourceBytes -> ~in.Data.present
      [] OTHER -> TRUE

\* The three outcomes of a call.
IsSuccess == err = NoError /\ result.Valid /\ result.Errors = <<>>
IsFailure == err = NoError /\ ~result.Valid /\ Len(result.Errors) >= 1
IsProcessError == err # NoError

\* The error e names the string s.
Mentions(e, s) == \E i \in 1..Len(e) : e[i] = s

\* The three conditions of construction, on the arguments of the last call.
SchemaCompiles(p) == SchemaReadable(p) /\ CompileBytes(p).err = NoError
DefinitionPresent(p, d) == d \in CompileBytes(p).defs
DefinitionAbsentFailure ==
    /\ newArgs.called
    /\ SchemaCompiles(newArgs.schemaPath)
    /\ ~DefinitionPresent(newArgs.schemaPath, newArgs.definitionName)

----------------------------------------------------------------------------
(* Properties of Validate and NewValidator, under Spec. *)

\* C1: when the input was read, a data-validity failure (a malformed document in a
\* supported format, or a constraint violation) returns a result with Valid = false
\* and a nil process error, never a non-nil process error.
C1_InvalidDataIsAResult ==
    (Returned /\ ReadSucceeded
       /\ (Malformed(input, data) \/ ViolatesConstraints(validator, input, data)))
    => (err = NoError /\ ~result.Valid)

C1_Witness ==
    /\ Returned /\ ReadSucceeded
    /\ input.Format = FormatJSON /\ data = Trunc /\ Malformed(input, data)
    /\ err = NoError /\ ~result.Valid

\* C2: when the input was read and the Format tag is neither FormatJSON nor
\* FormatYAML, Validate returns a non-nil process error and no result.
C2_UnsupportedFormatIsProcessError ==
    (Returned /\ ReadSucceeded /\ ~SupportedFormat(input.Format))
    => (err # NoError /\ result = ZeroResult)

\* C3: the call returns a process error from READ, with nothing parsed, exactly when
\* the selected payload cannot be acquired; otherwise (an empty but present buffer
\* included) READ hands over to PARSE.
C3_ReadFailsExactlyWhenAbsent ==
    /\ stages = <<"READ">> =>
          IF CannotAcquire(input)
          THEN pc = "idle" /\ err # NoError /\ result = ZeroResult
               /\ parsedData = NoValue
          ELSE pc = "PARSE" /\ err = NoError
    /\ ReadSucceeded => ~CannotAcquire(input)

C3_Witness ==
    /\ stages = <<"READ">> /\ pc = "PARSE"
    /\ input.SourceType = SourceBytes /\ input.Data = Bytes(Empty)

\* C4: every call that returns gives exactly one of: a valid result with no errors,
\* an invalid result with at least one error, a process error; no result is invalid
\* with an empty error list, and every result carries the input's Name.
C4_OneOfThreeOutcomes ==
    Returned =>
        /\ IsSuccess \/ IsFailure \/ IsProcessError
        /\ ~(IsSuccess /\ IsFailure) /\ ~(IsSuccess /\ IsProcessError)
        /\ ~(IsFailure /\ IsProcessError)
        /\ ~(~result.Valid /\ result.Errors = <<>> /\ err = NoError)
        /\ err = NoError => result.Name = input.Name

C4_Witness ==
    /\ Returned /\ data = Conflict /\ stages = <<"READ", "PARSE">>
    /\ IsFailure /\ result.Name = input.Name

\* C5: two calls on the same Validator with the same Format and Name whose sources
\* hold the same bytes return the same result and the same process error, whatever
\* the source types.
C5_SourcesEquivalent ==
    (Returned /\ prev.done
       /\ prev.supplied.present /\ supplied.present
       /\ prev.supplied.bytes = supplied.bytes
       /\ prev.input.Format = input.Format /\ prev.input.Name = input.Name)
    => (prev.result = result /\ prev.err = err)

C5_Witness ==
    /\ Returned /\ prev.done
    /\ prev.input.SourceType = SourceFile /\ input.SourceType = SourceReader
    /\ prev.supplied.present /\ supplied.present
    /\ prev.supplied.bytes = Good /\ supplied.bytes = Good
    /\ prev.input.Format = input.Format /\ prev.input.Name = input.Name
    /\ result.Valid /\ prev.result = result

\* C6 as stated: two calls with the identical input on the same Validator return
\* identical results, for every source type.
C6_IdenticalInputIdenticalResult ==
    (Returned /\ prev.done /\ prev.input = input)
    => (prev.result = result /\ prev.err = err)

\* C6 as amended: two calls with the identical input return identical results when
\* the input is a file or a buffer, and for a stream handle when the handle yields
\* the same bytes at both calls (a handle drained by a call yields none at the next).
C6_IdempotentUnlessReaderDrained ==
    (Returned /\ prev.done /\ prev.input = input
       /\ (input.SourceType = SourceReader => prev.supplied = supplied))
    => (prev.result = result /\ prev.err = err)

C6_Witness ==
    /\ Returned /\ prev.done /\ prev.input = input
    /\ input.SourceType = SourceFile /\ input.FilePath = "wrong.json"
    /\ IsFailure /\ prev.result = result

\* C7: NewValidator returns a Validator exactly when the schema file was read, it
\* compiled and the definition resolves in it; otherwise it returns an error and
\* no Validator, so the definition of a Validator is never missing from its schema.
C7_ValidatorOnlyWhenDefinitionResolves ==
    newArgs.called =>
        LET ok == /\ SchemaCompiles(newArgs.schemaPath)
                  /\ DefinitionPresent(newArgs.schemaPath, newArgs.definitionName)
        IN /\ (validator # NoValidator) <=> ok
           /\ (newErr = NoError) <=> ok
           /\ validator # NoValidator =>
                 /\ validator.schemaPath = newArgs.schemaPath
                 /\ validator.definitionName = newArgs.definitionName
                 /\ validator.definitionName \in validator.compiledSchema.defs

C7_Witness ==
    /\ DefinitionAbsentFailure
    /\ validator = NoValidator /\ newErr # NoError

\* C8 as stated: the error of a construction that fails because the definition does
\* not resolve names both the schema path and the requested definition.
C8_NotFoundNamesPathAndDefinition ==
    DefinitionAbsentFailure =>
        /\ Mentions(newErr, newArgs.schemaPath)
        /\ Mentions(newErr, newArgs.definitionName)

\* C8 as amended: that error names the requested definition, and not the schema path.
C8_NotFoundNamesDefinitionOnly ==
    DefinitionAbsentFailure =>
        /\ Mentions(newErr, newArgs.definitionName)
        /\ ~Mentions(newErr, newArgs.schemaPath)

C8_Witness ==
    /\ DefinitionAbsentFailure
    /\ newArgs.schemaPath = "schema.cue" /\ newArgs.definitionName = "#Missing"
    /\ Mentions(newErr, "#Missing")

\* C10: the stages of a call run in the order READ, PARSE, RESOLVE-DEFINITION, UNIFY,
\* CHECK-CONCRETE, each at most once; a call that is still running has recorded no
\* failure, and a call that returned before CHECK-CONCRETE returned a failure from
\* its last stage, with no later stage run (nothing looked up, nothing unified).
C10_StagesInOrder ==
    /\ IsPrefix(stages, StageOrder)
    /\ pc # "idle" =>
          /\ pc = StageOrder[Len(stages) + 1]
          /\ err = NoError /\ result = ZeroResult
    /\ (Returned /\ Len(stages) < Len(StageOrder)) =>
          /\ IsFailure \/ IsProcessError
          /\ Len(stages) <= 2 => (configDef = "" /\ unified = [def |-> "", doc |-> ""])
          /\ Len(stages) <= 3 => unified = [def |-> "", doc |-> ""]
    /\ (Returned /\ IsSuccess) => stages = StageOrder

C10_Witness ==
    /\ Returned /\ stages = <<"READ", "PARSE">>
    /\ IsFailure /\ configDef = "" /\ unified = [def |-> "", doc |-> ""]

\* The format front end rejects the document d: a syntax error.
FrontEndError(in, d) ==
    CASE in.Format = FormatJSON -> JSONExtract(in.Name, d).err
      [] in.Format = FormatYAML -> YAMLExtract(in.Name, d).err
      [] OTHER -> NoError

FrontEndFailure(in, d) == FrontEndError(in, d) # NoError

\* The front end accepts d and the value lifted from it carries this error.
LiftedError(in, d) ==
    CASE in.Format = FormatJSON /\ JSONExtract(in.Name, d).err = NoError ->
            Build(in.Name, JSONExtract(in.Name, d).expr).err
      [] in.Format = FormatYAML /\ YAMLExtract(in.Name, d).err = NoError ->
            Build(in.Name, YAMLExtract(in.Name, d).file).err
      [] OTHER -> NoEngineError

LiftedFailure(in, d) == LiftedError(in, d) # NoEngineError

\* A record with no position and no path.
IsSynthetic(r) == r.Line = 0 /\ r.Column = 0 /\ r.Path = <<>> /\ r.Message # <<>>

\* C11 as stated: whenever the document fails to parse, by the front end's report or
\* by the error of the lifted value, the failing result has exactly one record, with
\* line 0, column 0, an empty path and a message.
C11_ParseFailureIsOneSyntheticRecord ==
    (Returned /\ ReadSucceeded /\ Malformed(input, data))
    => (~result.Valid /\ Len(result.Errors) = 1 /\ IsSynthetic(result.Errors[1]))

\* C11 as amended: when the front end rejects the document, the failing result has
\* exactly one record, with line 0, column 0, an empty path and the message
\* "failed to parse: " followed by the front end's error; when the lifted value
\* carries the error, the records are one per error the engine lists for it, each
\* with that error's text (one record without position when it lists none).
C11_FrontEndFailureIsOneSyntheticRecord ==
    /\ (Returned /\ ReadSucceeded /\ FrontEndFailure(input, data)) =>
          /\ ~result.Valid /\ err = NoError
          /\ Len(result.Errors) = 1 /\ IsSynthetic(result.Errors[1])
          /\ result.Errors[1].Message[1] = "failed to parse: "
          /\ SubSeq(result.Errors[1].Message, 3, Len(result.Errors[1].Message))
                = FrontEndError(input, data)
    /\ (Returned /\ ReadSucceeded /\ LiftedFailure(input, data)) =>
          LET e == LiftedError(input, data) IN
          /\ ~result.Valid /\ err = NoError
          /\ Len(result.Errors) = IF Len(e.errs) = 0 THEN 1 ELSE Len(e.errs)
          /\ Len(e.errs) = 0 =>
                (IsSynthetic(result.Errors[1]) /\ result.Errors[1].Message = e.text)
          /\ \A i \in 1..Len(e.errs) : result.Errors[i].Message = e.errs[i].text

C11_Witness ==
    /\ Returned /\ stages = <<"READ", "PARSE">> /\ data = Dup
    /\ LiftedFailure(input, data)
    /\ Len(result.Errors) = 2
    /\ result.Errors[1].Line = 1 /\ result.Errors[1].Path = SegName

----------------------------------------------------------------------------
(* Properties of FormatResults, under SpecFormat. *)

\* The text of a sequence of pieces.
RECURSIVE Flat(_)
Flat(s) == IF s = <<>> THEN "" ELSE Head(s) \o Flat(Tail(s))

\* The lines of a text: the pieces before each newline.
RECURSIVE SplitLines(_, _)
SplitLines(out, cur) ==
    IF out = <<>> THEN (IF cur = <<>> THEN <<>> ELSE <<cur>>)
    ELSE IF Head(out) = "\n" THEN <<cur>> \o SplitLines(Tail(out), <<>>)
    ELSE SplitLines(Tail(out), Append(cur, Head(out)))

\* Lines a result takes, and the lines before the i-th result.
BlockLen(r) == IF r.Valid THEN 1 ELSE 1 + Len(r.Errors)

RECURSIVE LinesBefore(_, _)
LinesBefore(rs, i) ==
    IF i <= 1 THEN 0 ELSE LinesBefore(rs, i - 1) + BlockLen(rs[i - 1])

\* The line of an error, by which of line and path it has.
ErrorLine(e) ==
    LET hasLine == e.Line > 0
        hasPath == e.Path # <<>>
    IN "  "
       \o (IF hasLine THEN "line " \o ToString(e.Line) ELSE "")
       \o (IF hasLine /\ hasPath THEN ", " ELSE "")
       \o (IF hasPath THEN "field \"" \o Flat(e.Path) \o "\"" ELSE "")
       \o (IF hasLine \/ hasPath THEN ": " ELSE "")
       \o Flat(e.Message)

----------------------------------------------------------------------------
(* Properties of the Error Extractor, under SpecPath and SpecExtract. *)

\* The raw segments that are not empty, not "#Config" and do not begin with "[".
KeptSegments(path) ==
    SelectSeq(path, LAMBDA p : /\ Len(p) > 0
                               /\ p # <<"#", "C", "o", "n", "f", "i", "g">>
                               /\ p[1] # "[")

\* A segment without its surrounding quotes: from its first to its last character
\* that is not a quote.
Strip(p) ==
    LET nq == {i \in 1..Len(p) : p[i] # "\""} IN
    IF nq = {} THEN <<>>
    ELSE SubSeq(p, CHOOSE i \in nq : \A j \in nq : i <= j,
                   CHOOSE i \in nq : \A j \in nq : i >= j)

\* The segments of a path string: the characters between the dots.
RECURSIVE SplitDots(_, _)
SplitDots(str, cur) ==
    IF str = <<>> THEN <<cur>>
    ELSE IF Head(str) = "." THEN <<cur>> \o SplitDots(Tail(str), <<>>)
    ELSE SplitDots(Tail(str), Append(cur, Head(str)))

\* C12: the path string of every record has no segment taken from a raw segment
\* equal to "#Config" or beginning with "["; its segments are the remaining
\* non-empty raw segments, in their order, without their surrounding quotes,
\* joined by ".".
C12_PathKeepsFilteredSegmentsInOrder ==
    pc = "extracted" =>
        \A i \in 1..Len(engineErr.errs) :
            LET kept == KeptSegments(engineErr.errs[i].path)
                out == extracted[i].Path
            IN IF kept = <<>> THEN out = <<>>
               ELSE SplitDots(out, <<>>) = [k \in 1..Len(kept) |-> Strip(kept[k])]

C12_Witness ==
    /\ pc = "extracted"
    /\ engineErr.errs[1].path = <<SegConfig, SegWrong, SegIndex>>
    /\ extracted[1].Path = <<"w", "r", "o", "n", "g">>

\* The first positive number of a sequence, 0 when it has none.
FirstPositive(ns) ==
    LET ks == {k \in 1..Len(ns) : ns[k] > 0} IN
    IF ks = {} THEN 0 ELSE ns[CHOOSE k \in ks : \A j \in ks : k <= j]

\* C13: the extractor returns at least one record: for an error that lists nothing,
\* one record with line 0, column 0, an empty path and the error's full text;
\* otherwise one record per listed error, in the list's order, with that error's
\* text, the line of its first position with a positive line (else 0) and the
\* column of its first position with a positive column (else 0).
C13_OneRecordPerErrorInOrder ==
    pc = "extracted" =>
        /\ Len(extracted) >= 1
        /\ IF Len(engineErr.errs) = 0
           THEN extracted = <<[Line |-> 0, Column |-> 0, Path |-> <<>>,
                               Message |-> engineErr.text]>>
           ELSE /\ Len(extracted) = Len(engineErr.errs)
                /\ \A i \in 1..Len(engineErr.errs) :
                      LET e == engineErr.errs[i] IN
                      /\ extracted[i].Message = e.text
                      /\ extracted[i].Line =
                            FirstPositive([k \in 1..Len(e.positions) |->
                                             e.positions[k].line])
                      /\ extracted[i].Column =
                            FirstPositive([k \in 1..Len(e.positions) |->
                                             e.positions[k].column])
                      /\ (extracted[i].Path = <<>>) <=> (KeptSegments(e.path) = <<>>)

C13_Witness ==
    /\ pc = "extracted" /\ Len(engineErr.errs) = 2
    /\ engineErr.errs[1].positions = <<Pos(0, 5), Pos(3, 0)>>
    /\ engineErr.errs[1].text # engineErr.errs[2].text
    /\ extracted[1].Line = 3 /\ extracted[1].Column = 5
    /\ extracted[2].Message = engineErr.errs[2].text

====
